---- MODULE Spec2Model ----
(***************************************************************************)
(* State-machine model of the H1B wage map: the page coordinator (Home),   *)
(* the map component (WageMap) and the wage-level classification.          *)
(*                                                                         *)
(* Optional values (T | null) are sequences of length at most one:         *)
(* <<>> is null and <<x>> is the value x.  The job category code of "no    *)
(* selection" is the empty string, as selectedSoc?.code || null is falsy.  *)
(* County names are sequences of atoms (letter groups and blanks), so the  *)
(* string operations of the code act on them and are not the identity.     *)
(***************************************************************************)
EXTENDS Integers, Sequences, FiniteSets, TLC

VARIABLES
    selectedSoc,       \* Home: selectedSoc?.code, "" when null
    selectedWage,      \* Home: click selection, wage
    selectedLocation,  \* Home: click selection, location
    hoveredWage,       \* Home: hover selection, wage
    hoveredLocation,   \* Home: hover selection, location
    salary,            \* Home: the offered annual salary
    wageData,          \* WageMap: wage set of the loaded job category
    isLoading,         \* WageMap: loading overlay flag
    mapReady,          \* WageMap: map 'load' has fired, handlers attached
    countyToArea,      \* WageMap: reverse index, <<>> until loaded
    currentHoverId,    \* WageMap: closure variable of the handlers
    hoveredCountyId,   \* WageMap: state mirror of the hovered feature id
    hoverState,        \* renderer: feature ids with feature-state hover=true
    fillColor,         \* renderer: the fill-color paint value of counties-fill
    lastPaint,         \* observation: the last step called setPaintProperty
    inflight,          \* network: wage requests not yet answered, per job
    newest,            \* network: the most recently issued wage request
    lastFetch,         \* observation: the last step issued a wage request
    lastEvent,         \* observation: the event handled by the last step
    coarse,            \* window.matchMedia('(pointer: coarse)').matches
    innerWidth,        \* window.innerWidth
    countyMapping,     \* Home: the county mapping has arrived
    focusedCounties,   \* Home: the targets of the location search
    geoJsonFeatures,   \* WageMap: the features fetched for zooming
    lastFit,           \* observation: the fitBounds request of the last step
    cSalary,           \* classification run: salary
    cWage,             \* classification run: wage record
    cLevel,            \* classification run: computed level (0: none yet)
    cPrevSalary,       \* classification run: salary before the last change
    cPrevLevel,        \* classification run: level before the last change
    pSalary,           \* paint run: salary
    pWages,            \* paint run: the wage set
    pStatus,           \* paint run: areaStatus, <<>> before the first run
    gRows,             \* index run: the rows of Geography.csv
    iWages,            \* index run: the current wage set
    iIndex,            \* index run: the reverse index, <<>> before it is built
    iResolved,         \* index run: the last resolution, <<>> before the first
    wagesFile,         \* endpoint: what reading public/data/wages.json gives
    wagesCache,        \* endpoint: the module's cache of the parsed file
    eRequest,          \* endpoint: the last request, <<>> before the first
    eResponse,         \* endpoint: the response to it
    rSalary,           \* rule run: salary
    rFill,             \* rule run: the fill-color paint value of counties-fill
    rApplied,          \* rule run: the last step called setPaintProperty
    rEvent,            \* rule run: what the last step was
    dWages,            \* data generation: the rows of ALC_Export.csv
    dGeography,        \* data generation: the rows of Geography.csv
    dOutput,           \* data generation: the files written, <<>> before the run
    quiet              \* environment: the user has stopped, no user event follows

homeVars == <<selectedSoc, selectedWage, selectedLocation, hoveredWage, hoveredLocation,
              salary>>
mapVars == <<wageData, isLoading, mapReady, countyToArea, currentHoverId,
             hoveredCountyId, hoverState, fillColor>>
envVars == <<inflight, newest, lastFetch, lastPaint, lastEvent, coarse, innerWidth>>
levelVars == <<cSalary, cWage, cLevel, cPrevSalary, cPrevLevel>>
paintVars == <<pSalary, pWages, pStatus>>
focusKept == <<countyMapping, focusedCounties, geoJsonFeatures>>
focusVars == <<focusKept, lastFit>>
pageVars == <<homeVars, mapVars, envVars, focusVars>>
\* the variables of the runs of single functions, which the page leaves alone
indexVars == <<gRows, iWages, iIndex, iResolved>>
endpointVars == <<wagesFile, wagesCache, eRequest, eResponse>>
ruleVars == <<rSalary, rFill, rApplied, rEvent>>
dataVars == <<dWages, dGeography, dOutput>>
userVars == <<quiet>>
moreVars == <<ruleVars, dataVars, userVars>>
sideVars == <<levelVars, paintVars, indexVars, endpointVars, moreVars>>
vars == <<pageVars, sideVars>>

----------------------------------------------------------------------------
(* Bounds and data *)

MaxInflight == 2
MaxRate == 2

Null == <<>>
Some(x) == <<x>>

NoSoc == ""
Socs == {"A", "B"}

HoursPerYear == 2080
MobileWidth == 768

WageRecord(a, l1, l2, l3, l4) ==
    [area |-> a, level1 |-> l1, level2 |-> l2, level3 |-> l3, level4 |-> l4]

\* public/data/wages.json: the list of wage records of each job category
Wages(soc) ==
    IF soc = "A"
    THEN << WageRecord(1, 40, 50, 60, 70), WageRecord(2, 30, 35, 40, 45) >>
    ELSE << WageRecord(1, 45, 55, 65, 75), WageRecord(3, 20, 25, 30, 35) >>

----------------------------------------------------------------------------
(* County names, the area directory and the reverse index *)

Blank == " "
\* the alternatives of the suffix pattern, in lower case
SuffixWords == {"county", "parish", "municipio", "borough", "census area"}

\* String.prototype.toLowerCase on one atom
LowerAtom(a) ==
    CASE a = "Orange" -> "orange"
      [] a = "Lake" -> "lake"
      [] a = "County" -> "county"
      [] a = "Hills" -> "hills"
      [] a = "Borough" -> "borough"
      [] OTHER -> a

toLowerCase(name) == [i \in 1..Len(name) |-> LowerAtom(name[i])]

RECURSIVE TrimLeft(_)
TrimLeft(name) ==
    IF name # <<>> /\ Head(name) = Blank THEN TrimLeft(Tail(name)) ELSE name

RECURSIVE TrimRight(_)
TrimRight(name) ==
    IF name # <<>> /\ name[Len(name)] = Blank
    THEN TrimRight(SubSeq(name, 1, Len(name) - 1))
    ELSE name

\* String.prototype.trim
trim(name) == TrimRight(TrimLeft(name))

\* name.replace(/\s*(county|parish|municipio|borough|census area)\s*/gi, ''):
\* every occurrence of a suffix word goes, with the blanks on both sides of it,
\* wherever in the name it occurs
IsSuffixAt(name, i) == i \in 1..Len(name) /\ LowerAtom(name[i]) \in SuffixWords

RECURSIVE BlanksUpTo(_, _, _)
\* positions i..j of name are all blanks (vacuous when i > j)
BlanksUpTo(name, i, j) ==
    IF i > j THEN TRUE
    ELSE name[i] = Blank /\ BlanksUpTo(name, i + 1, j)

RemovedBySuffixPattern(name, i) ==
    \/ IsSuffixAt(name, i)
    \/ /\ name[i] = Blank
       /\ \E j \in 1..Len(name) :
             /\ IsSuffixAt(name, j)
             /\ IF j > i THEN BlanksUpTo(name, i, j - 1) ELSE BlanksUpTo(name, j + 1, i)

RECURSIVE StripFrom(_, _)
StripFrom(name, i) ==
    IF i > Len(name) THEN <<>>
    ELSE IF RemovedBySuffixPattern(name, i) THEN StripFrom(name, i + 1)
    ELSE <<name[i]>> \o StripFrom(name, i + 1)

stripSuffixes(name) == StripFrom(name, 1)

STATE_FIPS(stateAb) ==
    CASE stateAb = "CA" -> "06"
      [] stateAb = "FL" -> "12"
      [] OTHER -> ""

\* public/data/county-mapping.json, in the order Object.entries lists it
CountyMapping == <<
    [areaCode |-> "1", counties |-> << [county |-> <<"Orange", " ", "County">>, stateAb |-> "CA"] >>],
    [areaCode |-> "2", counties |-> << [county |-> <<"Orange", " ", "County">>, stateAb |-> "FL"] >>],
    [areaCode |-> "3", counties |-> << [county |-> <<"Lake", " ", "County">>, stateAb |-> "CA"],
                                       [county |-> <<"Orange", " ", "County">>, stateAb |-> "FL"] >> ] >>

\* parseInt(areaCode, 10) on the area codes of the directory
parseInt(areaCode) ==
    CASE areaCode = "1" -> 1
      [] areaCode = "2" -> 2
      [] areaCode = "3" -> 3
      [] areaCode = "9" -> 9
      [] OTHER -> 0

\* A parsed JSON object is the sequence of its properties in the order they
\* were created.  Object.entries lists the properties whose key is an integer
\* index first, in ascending numeric order, then the others in creation order.
IsIntegerKey(key) == key \in {"1", "2", "3"}

RECURSIVE InsertByKey(_, _)
InsertByKey(sorted, e) ==
    IF sorted = <<>> THEN <<e>>
    ELSE IF parseInt(e.areaCode) < parseInt(Head(sorted).areaCode) THEN <<e>> \o sorted
    ELSE <<Head(sorted)>> \o InsertByKey(Tail(sorted), e)

RECURSIVE SortByKey(_)
SortByKey(entries) ==
    IF entries = <<>> THEN <<>>
    ELSE InsertByKey(SortByKey(SubSeq(entries, 1, Len(entries) - 1)), entries[Len(entries)])

IntegerKeyed(e) == IsIntegerKey(e.areaCode)
OtherKeyed(e) == ~IsIntegerKey(e.areaCode)

ObjectEntries(obj) == SortByKey(SelectSeq(obj, IntegerKeyed)) \o SelectSeq(obj, OtherKeyed)

\* The Map is kept as the sequence of its entries, in insertion order.
MapHas(m, key) == \E i \in 1..Len(m) : m[i].key = key

MapGet(m, key) ==
    IF MapHas(m, key)
    THEN Some((CHOOSE e \in {m[i] : i \in 1..Len(m)} : e.key = key).codes)
    ELSE Null

MapPush(m, key, code) ==
    IF MapHas(m, key)
    THEN [i \in 1..Len(m) |->
            IF m[i].key = key THEN [m[i] EXCEPT !.codes = Append(@, code)] ELSE m[i]]
    ELSE Append(m, [key |-> key, codes |-> <<code>>])

\* a key made of the county name alone
CountyKeyNameOnly(name, fips) == [name |-> name, fips |-> "00"]

CountyKey(name, fips) == [name |-> name, fips |-> fips]

RECURSIVE AddCounties(_, _, _, _)
AddCounties(m, areaCode, counties, i) ==
    IF i > Len(counties) THEN m
    ELSE LET name == trim(stripSuffixes(toLowerCase(counties[i].county)))
             fips == STATE_FIPS(counties[i].stateAb)
         IN  AddCounties(IF fips # "" THEN MapPush(m, CountyKey(name, fips), areaCode) ELSE m,
                         areaCode, counties, i + 1)

RECURSIVE AddAreas(_, _, _)
AddAreas(m, data, i) ==
    IF i > Len(data) THEN m
    ELSE AddAreas(AddCounties(m, data[i].areaCode, data[i].counties, 1), data, i + 1)

buildCountyToAreaMap(data) == AddAreas(<<>>, ObjectEntries(data), 1)

\* the county features of the rendered GeoJSON source (generateId: true); STATE_ is
\* the STATE property, a reserved word here
Feature(id, name, state) == [id |-> id, NAME |-> name, STATE_ |-> state]

Features == { Feature(1, <<"Orange">>, "06"),
              Feature(2, <<"Orange">>, "12"),
              Feature(3, <<"Lake">>, "06") }

RECURSIVE FindWage(_, _, _)
\* currentWages.find(w => w.area === area), from position i
FindWage(wages, area, i) ==
    IF i > Len(wages) THEN Null
    ELSE IF wages[i].area = area THEN Some(wages[i])
    ELSE FindWage(wages, area, i + 1)

RECURSIVE FirstMatch(_, _, _)
FirstMatch(wages, codes, i) ==
    IF i > Len(codes) THEN Null
    ELSE LET match == FindWage(wages, parseInt(codes[i]), 1)
         IN  IF match # Null THEN match ELSE FirstMatch(wages, codes, i + 1)

\* the area codes findWageForCounty looks up: Null when the state is missing
\* or the key is absent
lookupAreaCodes(lookup, countyName, stateFips) ==
    LET normalizedCounty == trim(toLowerCase(countyName))
    IN  IF stateFips # "" THEN MapGet(lookup, CountyKey(normalizedCounty, stateFips))
        ELSE Null

\* a findWageForCounty that, without a state, takes the first key of the name
findWageForCountyAnyState(wages, lookup, countyName, stateFips) ==
    LET normalizedCounty == trim(toLowerCase(countyName))
        named == SelectSeq(lookup, LAMBDA e : e.key.name = normalizedCounty)
        areaCodes == IF stateFips # "" THEN MapGet(lookup, CountyKey(normalizedCounty, stateFips))
                     ELSE IF named # <<>> THEN Some(named[1].codes)
                     ELSE Null
    IN  IF Len(wages) = 0 THEN Null
        ELSE IF areaCodes # Null /\ Len(areaCodes[1]) > 0
             THEN FirstMatch(wages, areaCodes[1], 1)
             ELSE Null

findWageForCounty(wages, lookup, countyName, stateFips) ==
    LET areaCodes == lookupAreaCodes(lookup, countyName, stateFips)
    IN  IF Len(wages) = 0 THEN Null
        ELSE IF areaCodes # Null /\ Len(areaCodes[1]) > 0
             THEN FirstMatch(wages, areaCodes[1], 1)
             ELSE Null

----------------------------------------------------------------------------
(* The fill-color paint rule *)

NoDataColor == "#e2e8f0"
Red == "#ef4444"
Green == "#10b981"
Blue == "#0ea5e9"
Amber == "#f59e0b"

\* the first character of an atom in upper case
UpperFirst(a) ==
    CASE a = "orange" -> "Orange"
      [] a = "lake" -> "Lake"
      [] a = "county" -> "County"
      [] a = "hills" -> "Hills"
      [] a = "borough" -> "Borough"
      [] OTHER -> a

\* name.replace(/\w\S*/g, w => w.replace(/^\w/, c => c.toUpperCase())): the
\* first character of every blank-separated word
titleCase(name) ==
    [i \in 1..Len(name) |->
        IF name[i] # Blank /\ (i = 1 \/ name[i - 1] = Blank)
        THEN UpperFirst(name[i])
        ELSE name[i]]

\* an areaColor that takes the thresholds of the wage level
areaColorByLevel(sal, wage) ==
    LET l2 == wage.level2 * HoursPerYear
        l3 == wage.level3 * HoursPerYear
        l4 == wage.level4 * HoursPerYear
    IN  IF sal >= l4 THEN Green
        ELSE IF sal >= l3 THEN Blue
        ELSE IF sal >= l2 THEN Amber
        ELSE Red

\* an areaColor that compares the salary with the hourly rates
areaColorHourly(sal, wage) ==
    IF sal >= wage.level3 THEN Green
    ELSE IF sal >= wage.level2 THEN Blue
    ELSE IF sal >= wage.level1 THEN Amber
    ELSE Red

\* the color of one wage record at a salary (areaStatus loop body)
areaColor(sal, wage) ==
    LET l1 == wage.level1 * HoursPerYear
        l2 == wage.level2 * HoursPerYear
        l3 == wage.level3 * HoursPerYear
    IN  IF sal >= l3 THEN Green
        ELSE IF sal >= l2 THEN Blue
        ELSE IF sal >= l1 THEN Amber
        ELSE Red

RECURSIVE AreaStatusGet(_, _, _, _)
\* areaStatus.get(area) after the loop over currentWages[1..i]: a later record
\* of the same area overwrites an earlier one
AreaStatusGet(wages, sal, area, i) ==
    IF i = 0 THEN Null
    ELSE IF wages[i].area = area THEN Some(areaColor(sal, wages[i]))
    ELSE AreaStatusGet(wages, sal, area, i - 1)

RECURSIVE FirstColor(_, _, _, _)
\* the color of the first area code that has one
FirstColor(wages, sal, codes, i) ==
    IF i > Len(codes) THEN Null
    ELSE LET c == AreaStatusGet(wages, sal, parseInt(codes[i]), Len(wages))
         IN  IF c # Null THEN c ELSE FirstColor(wages, sal, codes, i + 1)

GroupHas(groups, name) == \E i \in 1..Len(groups) : groups[i].name = name

GroupPush(groups, name, entry) ==
    IF GroupHas(groups, name)
    THEN [i \in 1..Len(groups) |->
            IF groups[i].name = name
            THEN [groups[i] EXCEPT !.entries = Append(@, entry)]
            ELSE groups[i]]
    ELSE Append(groups, [name |-> name, entries |-> <<entry>>])

RECURSIVE nameGroups(_, _, _, _, _)
\* lookup.forEach(...) from entry i on: county name -> <<{fips, color}>>
nameGroups(groups, lookup, wages, sal, i) ==
    IF i > Len(lookup) THEN groups
    ELSE LET name == lookup[i].key.name
             fips == lookup[i].key.fips
             color == FirstColor(wages, sal, lookup[i].codes, 1)
         IN  nameGroups(IF name # <<>> /\ fips # "" /\ color # Null
                        THEN GroupPush(groups, titleCase(name),
                                       [fips |-> fips, color |-> color[1]])
                        ELSE groups,
                        lookup, wages, sal, i + 1)

\* A paint value: a plain color (no branches) or ['match', ['get', 'NAME'],
\* name, color | ['match', ['get', 'STATE'], fips, color, ..., default], ...,
\* default].  A direct branch has no states; a nested one has no color.
PlainColor(c) == [kind |-> "color", branches |-> <<>>, fallback |-> c]

\* a matchBranch that nests only the groups of two or more colors
matchBranchByColor(group) ==
    IF \A i \in 1..Len(group.entries) : group.entries[i].color = group.entries[1].color
    THEN [name |-> group.name, color |-> group.entries[1].color, states |-> <<>>]
    ELSE [name |-> group.name, color |-> "", states |-> group.entries]

\* a matchBranch that gives a name the color of its first state
matchBranchMerged(group) ==
    [name |-> group.name, color |-> group.entries[1].color, states |-> <<>>]

matchBranch(group) ==
    IF Len(group.entries) = 1
    THEN [name |-> group.name, color |-> group.entries[1].color, states |-> <<>>]
    ELSE [name |-> group.name, color |-> "", states |-> group.entries]

matchExpression(groups) ==
    [kind |-> "match",
     branches |-> [i \in 1..Len(groups) |-> matchBranch(groups[i])],
     fallback |-> NoDataColor]

\* The color the renderer gives a feature under a paint value: the output of
\* the first branch whose label equals the feature's NAME, and under a nested
\* branch the output of the first entry whose label equals its STATE, else
\* the nested default; the fallback when no label equals the NAME.
RECURSIVE stateMatch(_, _, _)
stateMatch(entries, state, i) ==
    IF i > Len(entries) THEN NoDataColor
    ELSE IF entries[i].fips = state THEN entries[i].color
    ELSE stateMatch(entries, state, i + 1)

RECURSIVE nameMatch(_, _, _)
nameMatch(paint, feature, i) ==
    IF i > Len(paint.branches) THEN paint.fallback
    ELSE IF paint.branches[i].name = feature.NAME
         THEN IF paint.branches[i].states = <<>>
              THEN paint.branches[i].color
              ELSE stateMatch(paint.branches[i].states, feature.STATE_, 1)
    ELSE nameMatch(paint, feature, i + 1)

featureColor(paint, feature) == nameMatch(paint, feature, 1)

\* updateMapColors: what it applies with setPaintProperty, if anything
\* (applied is FALSE when the function returns without a call)
updateMapColors(ready, wages, lookup, sal) ==
    IF ~ready THEN [applied |-> FALSE, paint |-> PlainColor(NoDataColor)]
    ELSE IF Len(wages) = 0 THEN [applied |-> TRUE, paint |-> PlainColor(NoDataColor)]
    ELSE LET groups == nameGroups(<<>>, lookup, wages, sal, 1)
         IN  [applied |-> Len(groups) > 0, paint |-> matchExpression(groups)]

\* The effect around updateMapColors: fillColor and lastPaint after it ran
\* with the given wage set and salary.
PaintEffect(wages, sal) ==
    LET r == updateMapColors(mapReady, wages, countyToArea, sal)
    IN  /\ fillColor' = IF r.applied THEN r.paint ELSE fillColor
        /\ lastPaint' = r.applied

NoPaint == /\ lastPaint' = FALSE
           /\ UNCHANGED fillColor

\* the step calls no fitBounds
NoFit == lastFit' = Null

----------------------------------------------------------------------------
(* Home: the page coordinator *)

\* a displayedLocation that prefers the click selection's location
displayedLocationClickFirst ==
    IF selectedLocation # Null THEN selectedLocation ELSE hoveredLocation

\* Show hovered wage if available, otherwise show selected
displayedWage == IF hoveredWage # Null THEN hoveredWage ELSE selectedWage

displayedLocation == IF hoveredWage # Null THEN hoveredLocation ELSE selectedLocation

\* A state setter schedules a render when the value it is given differs from
\* the state (Object.is): an object literal is always a new value.
SetsNewWage(old, new) == old # new

SetsNewLocation(old, new) == new # Null \/ old # Null

InflightTotal == inflight["A"] + inflight["B"]

Request(soc, status) == [soc |-> soc, status |-> status]

\* WageMap's "load wage data" effect, which depends on [selectedSocCode,
\* onAreaSelect].  Home passes a handleAreaSelect that is a new function on
\* every render of Home, so the effect runs after every render of Home.
\* soc, sw, sl, sal are the job category, the click selection and the salary
\* the render saw.  With no job category the effect empties the wage set (a
\* new array, so updateMapColors runs again) and calls onAreaSelect with no
\* wage; with one it raises isLoading and fetches, and updateMapColors has
\* run before it when the salary changed.
LoadWageEffect(soc, sw, sl, sal) ==
    IF soc = NoSoc
    THEN /\ wageData' = <<>>
         /\ selectedWage' = Null
         /\ selectedLocation' = Null
         /\ lastFetch' = FALSE
         /\ PaintEffect(<<>>, sal)
         /\ UNCHANGED <<isLoading, inflight, newest>>
    ELSE /\ InflightTotal < MaxInflight
         /\ isLoading' = TRUE
         /\ inflight' = [inflight EXCEPT ![soc] = @ + 1]
         /\ newest' = Request(soc, "pending")
         /\ lastFetch' = TRUE
         /\ selectedWage' = sw
         /\ selectedLocation' = sl
         /\ IF sal # salary THEN PaintEffect(wageData, sal) ELSE NoPaint
         /\ UNCHANGED wageData

\* The state of Home after a handler, and what its render (if any) sets off.
HomeCommit(soc, sw, sl, hw, hl, sal, rerender) ==
    /\ selectedSoc' = soc
    /\ hoveredWage' = hw
    /\ hoveredLocation' = hl
    /\ salary' = sal
    /\ IF rerender
       THEN LoadWageEffect(soc, sw, sl, sal)
       ELSE /\ selectedWage' = sw
            /\ selectedLocation' = sl
            /\ lastFetch' = FALSE
            /\ NoPaint
            /\ UNCHANGED <<wageData, isLoading, inflight, newest>>

\* handleAreaSelect
handleAreaSelect(selection) ==
    LET sw == selection.wage
        sl == IF selection.wage # Null
              THEN Some([county |-> selection.county, state |-> selection.state])
              ELSE Null
    IN  HomeCommit(selectedSoc, sw, sl, hoveredWage, hoveredLocation, salary,
                   SetsNewWage(selectedWage, sw) \/ SetsNewLocation(selectedLocation, sl))

\* a handleAreaHover that leaves the hovered location when there is no wage
handleAreaHoverKeepsLocation(selection) ==
    LET hw == selection.wage
        hl == IF selection.wage # Null
              THEN Some([county |-> selection.county, state |-> selection.state])
              ELSE hoveredLocation
    IN  HomeCommit(selectedSoc, selectedWage, selectedLocation, hw, hl, salary,
                   SetsNewWage(hoveredWage, hw) \/ selection.wage # Null)

\* handleAreaHover
handleAreaHover(selection) ==
    LET hw == selection.wage
        hl == IF selection.wage # Null
              THEN Some([county |-> selection.county, state |-> selection.state])
              ELSE Null
    IN  HomeCommit(selectedSoc, selectedWage, selectedLocation, hw, hl, salary,
                   SetsNewWage(hoveredWage, hw) \/ SetsNewLocation(hoveredLocation, hl))

Selection(wage, county, state) == [wage |-> wage, county |-> county, state |-> state]

\* Sidebar handleSelect -> onSocSelect(soc): the result list is open only
\* while no job category is selected
SelectSoc(soc) ==
    /\ selectedSoc = NoSoc
    /\ HomeCommit(soc, selectedWage, selectedLocation, hoveredWage, hoveredLocation, salary, TRUE)
    /\ lastEvent' = "select"
    /\ UNCHANGED <<mapReady, countyToArea, currentHoverId, hoveredCountyId, hoverState,
                   coarse, innerWidth, focusKept, sideVars>>
    /\ NoFit

\* Sidebar: typing in the job field or its clear button -> onSocSelect(null)
ClearSoc ==
    /\ selectedSoc # NoSoc
    /\ HomeCommit(NoSoc, selectedWage, selectedLocation, hoveredWage, hoveredLocation, salary,
                  TRUE)
    /\ lastEvent' = "clear"
    /\ UNCHANGED <<mapReady, countyToArea, currentHoverId, hoveredCountyId, hoverState,
                   coarse, innerWidth, focusKept, sideVars>>
    /\ NoFit

\* the popup's close button, rendered while selectedWage && !hoveredWage
ClosePopup ==
    /\ selectedWage # Null
    /\ hoveredWage = Null
    /\ HomeCommit(selectedSoc, Null, Null, hoveredWage, hoveredLocation, salary, TRUE)
    /\ lastEvent' = "close"
    /\ UNCHANGED <<mapReady, countyToArea, currentHoverId, hoveredCountyId, hoverState,
                   coarse, innerWidth, focusKept, sideVars>>
    /\ NoFit

\* the salary slider: onSalaryChange(Number(e.target.value)) -> setSalary
SalaryChoices == {80000, 120000, 150000}

SetSalary(sal) ==
    /\ sal # salary
    /\ HomeCommit(selectedSoc, selectedWage, selectedLocation, hoveredWage, hoveredLocation, sal,
                  TRUE)
    /\ lastEvent' = "salary"
    /\ UNCHANGED <<mapReady, countyToArea, currentHoverId, hoveredCountyId, hoverState,
                   coarse, innerWidth, focusKept, sideVars>>
    /\ NoFit

----------------------------------------------------------------------------
(* The location search and the zoom to the focused counties *)

\* the geometry of a county feature, coordinates as <<lng, lat>>
Geometry(id) ==
    CASE id = 1 -> [type |-> "Polygon",
                    coordinates |-> << << <<1, 1>>, <<2, 3>>, <<1, 1>> >> >>]
      [] id = 2 -> [type |-> "MultiPolygon",
                    coordinates |-> << << << <<8, 1>>, <<9, 2>>, <<8, 1>> >> >>,
                                       << << <<7, 4>>, <<8, 4>>, <<7, 4>> >> >> >>]
      [] OTHER  -> [type |-> "Polygon",
                    coordinates |-> << << <<1, 5>>, <<3, 6>>, <<1, 5>> >> >>]

\* data.features of the fetched GeoJSON, in file order
GeoJson == << Feature(1, <<"Orange">>, "06"),
              Feature(2, <<"Orange">>, "12"),
              Feature(3, <<"Lake">>, "06") >>

Min(a, b) == IF a < b THEN a ELSE b
Max(a, b) == IF a > b THEN a ELSE b

\* LngLatBounds.extend(coord); Null is the empty bounds
extend(bounds, coord) ==
    IF bounds = Null
    THEN Some([west |-> coord[1], south |-> coord[2], east |-> coord[1], north |-> coord[2]])
    ELSE Some([west |-> Min(bounds[1].west, coord[1]), south |-> Min(bounds[1].south, coord[2]),
               east |-> Max(bounds[1].east, coord[1]), north |-> Max(bounds[1].north, coord[2])])

RECURSIVE extendRing(_, _, _)
extendRing(bounds, ring, i) ==
    IF i > Len(ring) THEN bounds
    ELSE extendRing(extend(bounds, ring[i]), ring, i + 1)

RECURSIVE extendPolygon(_, _, _)
extendPolygon(bounds, polygon, i) ==
    IF i > Len(polygon) THEN bounds
    ELSE extendPolygon(extendRing(bounds, polygon[i], 1), polygon, i + 1)

RECURSIVE extendMultiPolygon(_, _, _)
extendMultiPolygon(bounds, polygons, i) ==
    IF i > Len(polygons) THEN bounds
    ELSE extendMultiPolygon(extendPolygon(bounds, polygons[i], 1), polygons, i + 1)

extendGeometry(bounds, geometry) ==
    IF geometry.type = "Polygon" THEN extendPolygon(bounds, geometry.coordinates, 1)
    ELSE IF geometry.type = "MultiPolygon" THEN extendMultiPolygon(bounds, geometry.coordinates, 1)
    ELSE bounds

\* the targets of a focusedCounties list: "CountyName::StateAb" entries with
\* the name normalized and the state as FIPS, those without FIPS dropped
focusTarget(fc) ==
    [name |-> trim(stripSuffixes(toLowerCase(fc.county))), stateFips |-> STATE_FIPS(fc.stateAb)]

HasFips(target) == target.stateFips # ""

focusTargets(focused) ==
    SelectSeq([i \in 1..Len(focused) |-> focusTarget(focused[i])], HasFips)

matchesTarget(feature, targets) ==
    \E t \in 1..Len(targets) :
        /\ feature.STATE_ = targets[t].stateFips
        /\ toLowerCase(feature.NAME) = targets[t].name

RECURSIVE extendFeatures(_, _, _, _)
extendFeatures(bounds, features, targets, i) ==
    IF i > Len(features) THEN bounds
    ELSE extendFeatures(IF matchesTarget(features[i], targets)
                        THEN extendGeometry(bounds, Geometry(features[i].id))
                        ELSE bounds,
                        features, targets, i + 1)

\* the fitBounds call of the effect
FitRequest(bounds) ==
    [bounds |-> bounds,
     padding |-> [top |-> 50, bottom |-> 50, left |-> 350, right |-> 50],
     maxZoom |-> 10]

\* The "zoom to focused counties" effect, which depends on [focusedCounties,
\* mapReady]: the fitBounds request it issues, Null when it issues none.
\* map.current exists from the mount on.
focusEffect(focused, features) ==
    IF Len(focused) = 0 \/ Len(features) = 0 THEN Null
    ELSE LET targets == focusTargets(focused)
             found == \E i \in 1..Len(features) : matchesTarget(features[i], targets)
         IN  IF Len(targets) = 0 THEN Null
             ELSE IF found
                  THEN Some(FitRequest(extendFeatures(Null, features, targets, 1)[1]))
                  ELSE Null

\* the explicit fetch of the counties GeoJSON answers: the features go to
\* geoJsonFeatures.current, a ref, and nothing renders again
GeoJsonLoaded ==
    /\ geoJsonFeatures = <<>>
    /\ geoJsonFeatures' = GeoJson
    /\ lastEvent' = "geojson"
    /\ lastFetch' = FALSE
    /\ NoPaint
    /\ NoFit
    /\ UNCHANGED <<homeVars, mapVars, inflight, newest, coarse, innerWidth,
                   countyMapping, focusedCounties, sideVars>>

\* Home's fetch of the county mapping answers: setCountyMapping(data)
HomeMappingLoaded ==
    /\ ~countyMapping
    /\ countyMapping' = TRUE
    /\ HomeCommit(selectedSoc, selectedWage, selectedLocation, hoveredWage, hoveredLocation,
                  salary, TRUE)
    /\ lastEvent' = "mapping"
    /\ NoFit
    /\ UNCHANGED <<mapReady, countyToArea, currentHoverId, hoveredCountyId, hoverState,
                   coarse, innerWidth, focusedCounties, geoJsonFeatures, sideVars>>

\* the locations the search offers: the county list of an area of the mapping
Locations == {CountyMapping[i].counties : i \in 1..Len(CountyMapping)}

\* Sidebar handleLocationSelect -> onLocationSelect(location.counties): a new
\* array, so Home renders, WageMap's focus effect runs and so does its load
\* wage effect
SelectLocation(location) ==
    /\ countyMapping
    /\ focusedCounties' = location
    /\ HomeCommit(selectedSoc, selectedWage, selectedLocation, hoveredWage, hoveredLocation,
                  salary, TRUE)
    /\ lastFit' = focusEffect(location, geoJsonFeatures)
    /\ lastEvent' = "location"
    /\ UNCHANGED <<mapReady, countyToArea, currentHoverId, hoveredCountyId, hoverState,
                   coarse, innerWidth, countyMapping, geoJsonFeatures, sideVars>>

\* the clear button of the location field: onLocationSelect([])
ClearLocation ==
    /\ focusedCounties' = <<>>
    /\ HomeCommit(selectedSoc, selectedWage, selectedLocation, hoveredWage, hoveredLocation,
                  salary, TRUE)
    /\ lastFit' = focusEffect(<<>>, geoJsonFeatures)
    /\ lastEvent' = "unfocus"
    /\ UNCHANGED <<mapReady, countyToArea, currentHoverId, hoveredCountyId, hoverState,
                   coarse, innerWidth, countyMapping, geoJsonFeatures, sideVars>>

----------------------------------------------------------------------------
(* WageMap: the map component *)

\* map.on('load'): layers added, setMapReady(true), handlers attached
MapLoad ==
    /\ ~mapReady
    /\ mapReady' = TRUE
    /\ lastEvent' = "mapload"
    /\ lastFetch' = FALSE
    /\ NoPaint
    /\ lastFit' = focusEffect(focusedCounties, geoJsonFeatures)
    /\ UNCHANGED <<homeVars, wageData, isLoading, countyToArea, currentHoverId,
                   hoveredCountyId, hoverState, inflight, newest, coarse, innerWidth, focusKept, sideVars>>

\* the county mapping arrives: setCountyToArea(buildCountyToAreaMap(data))
CountyMappingLoaded ==
    /\ countyToArea = <<>>
    /\ countyToArea' = buildCountyToAreaMap(CountyMapping)
    /\ lastEvent' = "indexload"
    /\ lastFetch' = FALSE
    /\ NoPaint
    /\ UNCHANGED <<homeVars, wageData, isLoading, mapReady, currentHoverId,
                   hoveredCountyId, hoverState, inflight, newest, coarse, innerWidth, focusKept, sideVars>>
    /\ NoFit

\* a WageResponse whose .catch leaves isLoading as it is
WageResponseFailureKeepsLoading(soc, ok, isNewest) ==
    /\ inflight[soc] > 0
    /\ IF isNewest
       THEN /\ newest = Request(soc, "pending")
            /\ newest' = Request(soc, IF ok THEN "ok" ELSE "failed")
       ELSE /\ inflight[soc] > (IF newest = Request(soc, "pending") THEN 1 ELSE 0)
            /\ UNCHANGED newest
    /\ inflight' = [inflight EXCEPT ![soc] = @ - 1]
    /\ wageData' = IF ok THEN Wages(soc) ELSE wageData
    /\ isLoading' = IF ok THEN FALSE ELSE isLoading
    /\ IF ok THEN PaintEffect(Wages(soc), salary) ELSE NoPaint
    /\ lastEvent' = IF ok THEN "response" ELSE "failure"
    /\ lastFetch' = FALSE
    /\ UNCHANGED <<homeVars, mapReady, countyToArea, currentHoverId, hoveredCountyId,
                   hoverState, coarse, innerWidth, focusKept, sideVars>>
    /\ NoFit

\* the answer to one outstanding fetch of /api/wages?soc=...: the .then chain
\* on success (res.ok), the .catch on a network error or a non-OK status.
\* Requests are answered in any order; isNewest tells whether the one
\* answered is the most recently issued.
WageResponse(soc, ok, isNewest) ==
    /\ inflight[soc] > 0
    /\ IF isNewest
       THEN /\ newest = Request(soc, "pending")
            /\ newest' = Request(soc, IF ok THEN "ok" ELSE "failed")
       ELSE /\ inflight[soc] > (IF newest = Request(soc, "pending") THEN 1 ELSE 0)
            /\ UNCHANGED newest
    /\ inflight' = [inflight EXCEPT ![soc] = @ - 1]
    /\ wageData' = IF ok THEN Wages(soc) ELSE wageData
    /\ isLoading' = FALSE
    /\ IF ok THEN PaintEffect(Wages(soc), salary) ELSE NoPaint
    /\ lastEvent' = IF ok THEN "response" ELSE "failure"
    /\ lastFetch' = FALSE
    /\ UNCHANGED <<homeVars, mapReady, countyToArea, currentHoverId, hoveredCountyId,
                   hoverState, coarse, innerWidth, focusKept, sideVars>>
    /\ NoFit

\* a hover guard that tests the pointer only, not the viewport
hoverSuppressedCoarseOnly == coarse

\* Disable hover on touch devices/mobile
hoverSuppressed == coarse \/ innerWidth < MobileWidth

\* a mouseMoveHandler that does not take the highlight off the county the
\* pointer was over before
mouseMoveHandlerKeepsHover(feature) ==
    /\ mapReady
    /\ lastEvent' = "move"
    /\ IF hoverSuppressed
       THEN /\ lastFetch' = FALSE
            /\ NoPaint
            /\ UNCHANGED <<homeVars, wageData, isLoading, inflight, newest, currentHoverId,
                           hoveredCountyId, hoverState>>
       ELSE LET wage == findWageForCounty(wageData, countyToArea, feature.NAME, feature.STATE_)
            IN  /\ currentHoverId' = Some(feature.id)
                /\ hoverState' = hoverState \cup {feature.id}
                /\ hoveredCountyId' = Some(feature.id)
                /\ handleAreaHover(Selection(wage, feature.NAME, feature.STATE_))
    /\ UNCHANGED <<mapReady, countyToArea, coarse, innerWidth, focusKept, sideVars>>
    /\ NoFit

mouseMoveHandler(feature) ==
    /\ mapReady
    /\ lastEvent' = "move"
    /\ IF hoverSuppressed
       THEN /\ lastFetch' = FALSE
            /\ NoPaint
            /\ UNCHANGED <<homeVars, wageData, isLoading, inflight, newest, currentHoverId,
                           hoveredCountyId, hoverState>>
       ELSE LET cleared == IF currentHoverId # Null /\ currentHoverId # Some(feature.id)
                           THEN hoverState \ {currentHoverId[1]}
                           ELSE hoverState
                wage == findWageForCounty(wageData, countyToArea, feature.NAME, feature.STATE_)
            IN  /\ currentHoverId' = Some(feature.id)
                /\ hoverState' = cleared \cup {feature.id}
                /\ hoveredCountyId' = Some(feature.id)
                /\ handleAreaHover(Selection(wage, feature.NAME, feature.STATE_))
    /\ UNCHANGED <<mapReady, countyToArea, coarse, innerWidth, focusKept, sideVars>>
    /\ NoFit

\* a mouseLeaveHandler that notifies through onAreaSelectRef
mouseLeaveHandlerNotifiesSelect ==
    /\ mapReady
    /\ lastEvent' = "leave"
    /\ hoverState' = IF currentHoverId # Null THEN hoverState \ {currentHoverId[1]} ELSE hoverState
    /\ currentHoverId' = Null
    /\ hoveredCountyId' = Null
    /\ handleAreaSelect(Selection(Null, <<>>, ""))
    /\ UNCHANGED <<mapReady, countyToArea, coarse, innerWidth, focusKept, sideVars>>
    /\ NoFit

mouseLeaveHandler ==
    /\ mapReady
    /\ lastEvent' = "leave"
    /\ hoverState' = IF currentHoverId # Null THEN hoverState \ {currentHoverId[1]} ELSE hoverState
    /\ currentHoverId' = Null
    /\ hoveredCountyId' = Null
    /\ handleAreaHover(Selection(Null, <<>>, ""))
    /\ UNCHANGED <<mapReady, countyToArea, coarse, innerWidth, focusKept, sideVars>>
    /\ NoFit

clickHandler(feature) ==
    /\ mapReady
    /\ lastEvent' = "click"
    /\ LET wage == findWageForCounty(wageData, countyToArea, feature.NAME, feature.STATE_)
       IN  handleAreaSelect(Selection(wage, feature.NAME, feature.STATE_))
    /\ UNCHANGED <<mapReady, countyToArea, currentHoverId, hoveredCountyId, hoverState,
                   coarse, innerWidth, focusKept, sideVars>>
    /\ NoFit

\* the browser window is resized: window.innerWidth as the next event reads it
Widths == {500, 1024}

Resize(w) ==
    /\ w # innerWidth
    /\ innerWidth' = w
    /\ lastEvent' = "resize"
    /\ lastFetch' = FALSE
    /\ lastPaint' = FALSE
    /\ UNCHANGED <<homeVars, mapVars, inflight, newest, coarse, focusKept, sideVars>>
    /\ NoFit

----------------------------------------------------------------------------
(* The specification of the page *)

NoRecord == WageRecord(0, 0, 0, 0, 0)

EndpointIdle ==
    /\ wagesFile = "data"
    /\ wagesCache = <<>>
    /\ eRequest = <<>>
    /\ eResponse = <<>>

IndexIdle ==
    /\ gRows = <<>>
    /\ iWages = <<>>
    /\ iIndex = <<>>
    /\ iResolved = <<>>

PaintIdle ==
    /\ pSalary = 0
    /\ pWages = <<>>
    /\ pStatus = <<>>

\* the rule run before it starts: the initial state of the map component
RuleIdle ==
    /\ rSalary = 120000
    /\ rFill = PlainColor(NoDataColor)
    /\ rApplied = FALSE
    /\ rEvent = "init"

DataIdle ==
    /\ dWages = <<>>
    /\ dGeography = <<>>
    /\ dOutput = <<>>

\* the user is at the page
UserIdle == quiet = FALSE

MoreIdle == RuleIdle /\ DataIdle /\ UserIdle

LevelIdle ==
    /\ cSalary = 0
    /\ cWage = NoRecord
    /\ cLevel = 0
    /\ cPrevSalary = 0
    /\ cPrevLevel = 0

Init ==
    /\ selectedSoc = NoSoc
    /\ selectedWage = Null
    /\ selectedLocation = Null
    /\ hoveredWage = Null
    /\ hoveredLocation = Null
    /\ salary = 120000
    /\ wageData = <<>>
    /\ isLoading = FALSE
    /\ mapReady = FALSE
    /\ countyToArea = <<>>
    /\ currentHoverId = Null
    /\ hoveredCountyId = Null
    /\ hoverState = {}
    /\ fillColor = PlainColor(NoDataColor)
    /\ lastPaint = FALSE
    /\ inflight = [s \in Socs |-> 0]
    /\ newest = Request(NoSoc, "none")
    /\ lastFetch = FALSE
    /\ lastEvent = "init"
    /\ coarse \in BOOLEAN
    /\ innerWidth \in Widths
    /\ countyMapping = FALSE
    /\ focusedCounties = <<>>
    /\ geoJsonFeatures = <<>>
    /\ lastFit = Null
    /\ LevelIdle
    /\ PaintIdle
    /\ IndexIdle
    /\ EndpointIdle
    /\ MoreIdle

Next ==
    \/ \E soc \in Socs : SelectSoc(soc)
    \/ ClearSoc
    \/ ClosePopup
    \/ \E sal \in SalaryChoices : SetSalary(sal)
    \/ MapLoad
    \/ CountyMappingLoaded
    \/ \E soc \in Socs, ok \in BOOLEAN, isNewest \in BOOLEAN : WageResponse(soc, ok, isNewest)
    \/ \E feature \in Features : mouseMoveHandler(feature)
    \/ mouseLeaveHandler
    \/ \E feature \in Features : clickHandler(feature)
    \/ \E w \in Widths : Resize(w)

Spec == Init /\ [][Next]_vars

\* The page with the location search: the searches of a job and of a
\* location, and the loads they wait for.
NextFocus ==
    \/ MapLoad
    \/ CountyMappingLoaded
    \/ GeoJsonLoaded
    \/ HomeMappingLoaded
    \/ \E soc \in Socs : SelectSoc(soc)
    \/ \E soc \in Socs, ok \in BOOLEAN, isNewest \in BOOLEAN : WageResponse(soc, ok, isNewest)
    \/ \E location \in Locations : SelectLocation(location)
    \/ ClearLocation

SpecFocus == Init /\ [][NextFocus]_vars

\* The page of a user who stops at some moment: the events of the user until
\* then, and the loads and the responses of the wage requests, every one of
\* which completes, with success or with a failure.
InitQuiet ==
    /\ Init
    /\ ~coarse
    /\ innerWidth = 1024

UserEvent ==
    \/ \E soc \in Socs : SelectSoc(soc)
    \/ ClearSoc
    \/ ClosePopup
    \/ \E feature \in Features : mouseMoveHandler(feature)
    \/ mouseLeaveHandler
    \/ \E feature \in Features : clickHandler(feature)

\* the user stops: no handler runs
StopUser ==
    /\ ~quiet
    /\ quiet' = TRUE
    /\ UNCHANGED <<pageVars, levelVars, paintVars, indexVars, endpointVars, ruleVars, dataVars>>

AnswerWageRequest ==
    \E soc \in Socs, ok \in BOOLEAN, isNewest \in BOOLEAN : WageResponse(soc, ok, isNewest)

NextQuiet ==
    \/ ~quiet /\ UserEvent
    \/ StopUser
    \/ MapLoad
    \/ CountyMappingLoaded
    \/ HomeMappingLoaded
    \/ AnswerWageRequest

SpecQuiet == InitQuiet /\ [][NextQuiet]_vars /\ WF_vars(AnswerWageRequest)

----------------------------------------------------------------------------
(* Classification of a sal against a wage record *)

\* a calculateWageLevel that tests the tiers from the lowest up
calculateWageLevelAscending(sal, wage) ==
    IF sal < wage.level2 * HoursPerYear THEN 1
    ELSE IF sal < wage.level3 * HoursPerYear THEN 2
    ELSE IF sal < wage.level4 * HoursPerYear THEN 3
    ELSE 4

\* a calculateWageLevel whose last comparison is turned around
calculateWageLevelFlipped(sal, wage) ==
    IF sal >= wage.level4 * HoursPerYear THEN 4
    ELSE IF sal >= wage.level3 * HoursPerYear THEN 3
    ELSE IF sal <= wage.level2 * HoursPerYear THEN 2
    ELSE 1

\* Sidebar.tsx calculateWageLevel
calculateWageLevel(sal, wage) ==
    IF sal >= wage.level4 * HoursPerYear THEN 4
    ELSE IF sal >= wage.level3 * HoursPerYear THEN 3
    ELSE IF sal >= wage.level2 * HoursPerYear THEN 2
    ELSE 1

\* WagePanel calculateWageLevel
panelCalculateWageLevel(sal, wage) ==
    LET annualSalary == sal
        l1 == wage.level1 * HoursPerYear
        l2 == wage.level2 * HoursPerYear
        l3 == wage.level3 * HoursPerYear
        l4 == wage.level4 * HoursPerYear
    IN  IF annualSalary >= l4 THEN 4
        ELSE IF annualSalary >= l3 THEN 3
        ELSE IF annualSalary >= l2 THEN 2
        ELSE 1

\* Home, goal message: currentLevel
currentLevel(sal, wage) ==
    LET l1 == wage.level1 * HoursPerYear
        l2 == wage.level2 * HoursPerYear
        l3 == wage.level3 * HoursPerYear
        l4 == wage.level4 * HoursPerYear
    IN  IF sal >= l4 THEN 4
        ELSE IF sal >= l3 THEN 3
        ELSE IF sal >= l2 THEN 2
        ELSE 1

\* hourly rates 0..MaxRate in any order, ordered or not
Rates == 0..MaxRate

LevelRecords ==
    {WageRecord(1, l1, l2, l3, l4) : l1 \in Rates, l2 \in Rates, l3 \in Rates, l4 \in Rates}

\* salaries on, just below and just above every annualised rate
Salaries == {r * HoursPerYear + d : r \in Rates, d \in {-1, 0, 1}}

PageIdle ==
    /\ selectedSoc = NoSoc
    /\ selectedWage = Null
    /\ selectedLocation = Null
    /\ hoveredWage = Null
    /\ hoveredLocation = Null
    /\ salary = 120000
    /\ wageData = <<>>
    /\ isLoading = FALSE
    /\ mapReady = FALSE
    /\ countyToArea = <<>>
    /\ currentHoverId = Null
    /\ hoveredCountyId = Null
    /\ hoverState = {}
    /\ fillColor = PlainColor(NoDataColor)
    /\ lastPaint = FALSE
    /\ inflight = [s \in Socs |-> 0]
    /\ newest = Request(NoSoc, "none")
    /\ lastFetch = FALSE
    /\ lastEvent = "init"
    /\ coarse = FALSE
    /\ innerWidth = 1024
    /\ countyMapping = FALSE
    /\ focusedCounties = <<>>
    /\ geoJsonFeatures = <<>>
    /\ lastFit = Null

InitLevel ==
    /\ PageIdle
    /\ cSalary \in Salaries
    /\ cWage \in LevelRecords
    /\ cLevel = 0
    /\ cPrevSalary = cSalary
    /\ cPrevLevel = 0
    /\ PaintIdle
    /\ IndexIdle
    /\ EndpointIdle
    /\ MoreIdle

\* the Sidebar renders with a wage record: wageLevel = calculateWageLevel(...)
RenderLevel ==
    /\ cLevel = 0
    /\ cLevel' = calculateWageLevel(cSalary, cWage)
    /\ cPrevLevel' = cLevel'
    /\ UNCHANGED <<cSalary, cWage, cPrevSalary, pageVars, paintVars, indexVars, endpointVars,
                   moreVars>>

\* onSalaryChange(sal), and the render that follows it
ChangeSalary(sal) ==
    /\ cLevel # 0
    /\ sal # cSalary
    /\ cPrevSalary' = cSalary
    /\ cPrevLevel' = cLevel
    /\ cSalary' = sal
    /\ cLevel' = calculateWageLevel(sal, cWage)
    /\ UNCHANGED <<cWage, pageVars, paintVars, indexVars, endpointVars, moreVars>>

NextLevel ==
    \/ RenderLevel
    \/ \E sal \in Salaries : ChangeSalary(sal)

SpecLevel == InitLevel /\ [][NextLevel]_vars

----------------------------------------------------------------------------
(* The area colors of updateMapColors, run on wage sets of two areas *)

\* wage records of an area whose tiers do not decrease
OrderedRecords(a) ==
    {WageRecord(a, l1, l2, l3, l4) : l1 \in Rates, l2 \in Rates, l3 \in Rates, l4 \in Rates}
        \cap {w \in [area : {a}, level1 : Rates, level2 : Rates, level3 : Rates, level4 : Rates] :
                 w.level1 <= w.level2 /\ w.level2 <= w.level3 /\ w.level3 <= w.level4}

\* wage sets of two areas: any tiers for area 1, non-decreasing tiers for area 2
PaintWageSets == {<<r1, r2>> : r1 \in LevelRecords, r2 \in OrderedRecords(2)}

\* areaStatus after the loop over the wage set, listed record by record
areaStatus(wages, sal) ==
    [i \in 1..Len(wages) |-> AreaStatusGet(wages, sal, wages[i].area, Len(wages))[1]]

InitPaint ==
    /\ PageIdle
    /\ LevelIdle
    /\ pSalary \in Salaries
    /\ pWages \in PaintWageSets
    /\ pStatus = <<>>
    /\ IndexIdle
    /\ EndpointIdle
    /\ MoreIdle

\* the wage set arrives: updateMapColors runs on it
PaintAreas ==
    /\ pStatus = <<>>
    /\ pStatus' = areaStatus(pWages, pSalary)
    /\ UNCHANGED <<pSalary, pWages, pageVars, levelVars, indexVars, endpointVars, moreVars>>

\* the salary changes: updateMapColors runs again
PaintSalary(sal) ==
    /\ pStatus # <<>>
    /\ sal # pSalary
    /\ pSalary' = sal
    /\ pStatus' = areaStatus(pWages, sal)
    /\ UNCHANGED <<pWages, pageVars, levelVars, indexVars, endpointVars, moreVars>>

NextPaint ==
    \/ PaintAreas
    \/ \E sal \in Salaries : PaintSalary(sal)

SpecPaint == InitPaint /\ [][NextPaint]_vars

----------------------------------------------------------------------------
(* The area directory, the reverse index and resolution, run on small
   geographies *)

MaxRows == 2

\* countyMapping[geo.Area] exists
DirectoryHas(obj, area) == \E i \in 1..Len(obj) : obj[i].areaCode = area

\* one row of Geography.csv: the area gets its entry at its first row, and
\* every row adds its county to the entry of its area
AddGeography(obj, geo) ==
    LET county == [county |-> geo.CountyTownName, stateAb |-> geo.StateAb]
        withArea == IF DirectoryHas(obj, geo.Area) THEN obj
                    ELSE Append(obj, [areaCode |-> geo.Area, counties |-> <<>>])
    IN  [i \in 1..Len(withArea) |->
            IF withArea[i].areaCode = geo.Area
            THEN [withArea[i] EXCEPT !.counties = Append(@, county)]
            ELSE withArea[i]]

RECURSIVE countyMappingOf(_, _)
\* processData: countyMapping after the rows up to row i
countyMappingOf(rows, i) ==
    IF i = 0 THEN <<>>
    ELSE AddGeography(countyMappingOf(rows, i - 1), rows[i])

\* county-mapping.json as written by JSON.stringify(countyMapping) and parsed
\* again: the properties in the order Object.entries lists them
countyMappingJson(rows) == ObjectEntries(countyMappingOf(rows, Len(rows)))

GeoAreas == {"1", "2"}
GeoCounties == { <<"Orange", " ", "County">>, <<"Hills", "borough", " ", "County">> }
GeoStates == {"CA", "FL", "GU"}

GeographyRows == [Area : GeoAreas, CountyTownName : GeoCounties, StateAb : GeoStates]

Geographies == UNION {[1..n -> GeographyRows] : n \in 1..MaxRows}

\* the wage sets of a job category that has records for both areas, for one
\* of them, or for none
IndexWageSets ==
    { <<>>, <<Wages("A")[1]>>, <<Wages("A")[2]>>, Wages("A") }

\* the features a pointer event can report: the renderer names a county
\* without its suffix word, and a feature may lack its STATE property
IndexFeatures ==
    { Feature(1, name, state) : name \in { <<"Orange">>, <<"Hills", "borough">> },
                                state \in {"06", "12", ""} }

InitIndex ==
    /\ PageIdle
    /\ LevelIdle
    /\ PaintIdle
    /\ EndpointIdle
    /\ MoreIdle
    /\ gRows \in Geographies
    /\ iWages \in IndexWageSets
    /\ iIndex = Null
    /\ iResolved = Null

\* the county mapping arrives: buildCountyToAreaMap(data)
BuildIndex ==
    /\ iIndex = Null
    /\ iIndex' = Some(buildCountyToAreaMap(countyMappingJson(gRows)))
    /\ UNCHANGED <<gRows, iWages, iResolved, pageVars, levelVars, paintVars, endpointVars,
                   moreVars>>

\* the index the handlers read: an empty Map until the mapping has arrived
CurrentIndex == IF iIndex = Null THEN <<>> ELSE iIndex[1]

\* a pointer event on a feature: the event's feature, the selection its
\* handler hands to the listener, and whether the mapping had arrived
ResolveFeature(feature) ==
    /\ iResolved' =
          Some([feature |-> feature,
                selection |->
                  Selection(findWageForCounty(iWages, CurrentIndex, feature.NAME, feature.STATE_),
                            feature.NAME, feature.STATE_),
                indexed |-> iIndex # Null])
    /\ UNCHANGED <<gRows, iWages, iIndex, pageVars, levelVars, paintVars, endpointVars,
                   moreVars>>

NextIndex ==
    \/ BuildIndex
    \/ \E feature \in IndexFeatures : ResolveFeature(feature)

SpecIndex == InitIndex /\ [][NextIndex]_vars

----------------------------------------------------------------------------
(* The wage endpoint: GET /api/wages?soc=...&area=... *)

\* searchParams.get(name) of a parameter the URL does not have
NoParam == "<null>"

\* the job-category and area parameters of the requests
SocParams == {NoParam, "", "A", "B", "Z", "constructor"}
AreaParams == {NoParam, "", "1", "2", "3", "9"}

\* what reading and parsing wages.json gives: its data, the JSON text null,
\* or an exception when the file cannot be read
WagesFiles == {"data", "null", "missing"}

\* wages[socCode] on the parsed file: the list of an own property, for the
\* name of a property every object inherits a value that is truthy and no
\* array, and undefined otherwise
InheritedKeys == {"constructor"}

Response(status, body) == [status |-> status, body |-> body]

\* the responses of GET once the wage data is loaded
AnswerLoaded(socCode, areaCode) ==
    IF socCode \in Socs
    THEN LET socWages == Wages(socCode)
         IN  IF areaCode # NoParam /\ areaCode # ""
             THEN LET areaWage == FindWage(socWages, parseInt(areaCode), 1)
                  IN  IF areaWage = Null
                      THEN {Response(404, "No wage data for this area")}
                      ELSE {Response(200, areaWage[1])}
             ELSE {Response(200, socWages)}
    ELSE IF socCode \in InheritedKeys
    THEN IF areaCode # NoParam /\ areaCode # ""
         THEN \* socWages.find is not a function: the catch branch
              {Response(500, "Failed to load wage data")}
         ELSE \* NextResponse.json of a value JSON cannot serialise: an empty
              \* body, or a TypeError that the catch branch answers
              {Response(200, ""), Response(500, "Failed to load wage data")}
    ELSE {Response(404, "No wage data for this SOC code")}

\* GET: the responses it can give and the cache it leaves
Answers(socCode, areaCode) ==
    IF socCode = NoParam \/ socCode = ""
    THEN {Response(400, "SOC code is required")}
    ELSE IF wagesCache # Null THEN AnswerLoaded(socCode, areaCode)
    ELSE IF wagesFile = "missing" THEN {Response(500, "Failed to load wage data")}
    ELSE IF wagesFile = "null" THEN {Response(500, "Wage data not available")}
    ELSE AnswerLoaded(socCode, areaCode)

CacheAfter(socCode) ==
    IF socCode = NoParam \/ socCode = "" THEN wagesCache
    ELSE IF wagesCache # Null THEN wagesCache
    ELSE IF wagesFile = "data" THEN Some("data")
    ELSE Null

InitEndpoint ==
    /\ PageIdle
    /\ LevelIdle
    /\ PaintIdle
    /\ IndexIdle
    /\ MoreIdle
    /\ wagesFile \in WagesFiles
    /\ wagesCache = Null
    /\ eRequest = Null
    /\ eResponse = Null

GET(socCode, areaCode) ==
    /\ eRequest' = Some([soc |-> socCode, area |-> areaCode])
    /\ \E r \in Answers(socCode, areaCode) : eResponse' = Some(r)
    /\ wagesCache' = CacheAfter(socCode)
    /\ UNCHANGED <<wagesFile, pageVars, levelVars, paintVars, indexVars, moreVars>>

NextEndpoint == \E socCode \in SocParams, areaCode \in AreaParams : GET(socCode, areaCode)

SpecEndpoint == InitEndpoint /\ [][NextEndpoint]_vars

----------------------------------------------------------------------------
(* The fill-color rule of the loaded map, run on small geographies and on
   wage sets that change *)

\* the wage sets a job category can have: none, records of one or both areas
\* of the geography, a record of an area no county is in, and two records
\* of the same area
RuleWageSets ==
    { <<>>,
      <<Wages("A")[1]>>,
      Wages("A"),
      <<WageRecord(9, 40, 50, 60, 70)>>,
      <<WageRecord(1, 40, 50, 60, 70), WageRecord(1, 20, 25, 30, 35)>> }

\* the county features the renderer draws
RuleFeatures ==
    { Feature(1, <<"Orange">>, "06"), Feature(2, <<"Orange">>, "12") }

InitRule ==
    /\ PageIdle
    /\ LevelIdle
    /\ PaintIdle
    /\ EndpointIdle
    /\ gRows \in Geographies
    /\ iWages = <<>>
    /\ iIndex = Null
    /\ iResolved = Null
    /\ RuleIdle
    /\ DataIdle
    /\ UserIdle

\* the effect around updateMapColors on a loaded map: the paint value and
\* whether setPaintProperty was called
RulePaint(wages, sal) ==
    LET r == updateMapColors(TRUE, wages, CurrentIndex, sal)
    IN  /\ rFill' = IF r.applied THEN r.paint ELSE rFill
        /\ rApplied' = r.applied

\* the county mapping arrives: setCountyToArea, which sets off no paint
RuleIndexLoaded ==
    /\ iIndex = Null
    /\ iIndex' = Some(buildCountyToAreaMap(countyMappingJson(gRows)))
    /\ rEvent' = "index"
    /\ rApplied' = FALSE
    /\ UNCHANGED <<gRows, iWages, iResolved, rSalary, rFill, pageVars, levelVars, paintVars,
                   endpointVars, dataVars, userVars>>

\* setWageData(wages), and the effect that follows it
RuleWages(wages) ==
    /\ iWages' = wages
    /\ RulePaint(wages, rSalary)
    /\ rEvent' = "wages"
    /\ UNCHANGED <<gRows, iIndex, iResolved, rSalary, pageVars, levelVars, paintVars,
                   endpointVars, dataVars, userVars>>

\* the salary changes, and the effect that follows it
RuleSalary(sal) ==
    /\ sal # rSalary
    /\ rSalary' = sal
    /\ RulePaint(iWages, sal)
    /\ rEvent' = "salary"
    /\ UNCHANGED <<gRows, iWages, iIndex, iResolved, pageVars, levelVars, paintVars,
                   endpointVars, dataVars, userVars>>

NextRule ==
    \/ RuleIndexLoaded
    \/ \E wages \in RuleWageSets : RuleWages(wages)
    \/ \E sal \in SalaryChoices : RuleSalary(sal)

SpecRule == InitRule /\ [][NextRule]_vars

----------------------------------------------------------------------------
(* Data generation: processData of scripts/process-data.ts *)

\* String.prototype.trim on the codes of the input rows
trimCode(code) ==
    CASE code = " 1" -> "1"
      [] code = "A " -> "A"
      [] OTHER -> code

\* parseFloat(level) || 0 on the rates of the input rows
parseRate(level) ==
    CASE level = "40" -> 40
      [] level = "50" -> 50
      [] level = "60" -> 60
      [] level = "70" -> 70
      [] OTHER -> 0

\* a value is falsy: a field the row lacks is the empty string
Falsy(field) == field = ""

RECURSIVE areaNameOf(_, _, _)
\* areaNameMap.get(areaCode) || 'Unknown Area': the name of the first row of
\* the area
areaNameOf(geography, areaCode, i) ==
    IF i > Len(geography) THEN "Unknown Area"
    ELSE IF geography[i].Area = areaCode
         THEN (IF Falsy(geography[i].AreaName) THEN "Unknown Area" ELSE geography[i].AreaName)
         ELSE areaNameOf(geography, areaCode, i + 1)

ProcessedWage(geography, wage) ==
    [area |-> parseInt(trimCode(wage.Area)),
     areaName |-> areaNameOf(geography, trimCode(wage.Area), 1),
     level1 |-> parseRate(wage.Level1),
     level2 |-> parseRate(wage.Level2),
     level3 |-> parseRate(wage.Level3),
     level4 |-> parseRate(wage.Level4)]

\* wagesOutput[socCode].push(record), the list created at the first record
OutputPush(output, socCode, record) ==
    IF \E k \in 1..Len(output) : output[k].socCode = socCode
    THEN [k \in 1..Len(output) |->
            IF output[k].socCode = socCode
            THEN [output[k] EXCEPT !.records = Append(@, record)]
            ELSE output[k]]
    ELSE Append(output, [socCode |-> socCode, records |-> <<record>>])

RECURSIVE wagesOutputOf(_, _, _)
\* wagesOutput after the rows up to row i
wagesOutputOf(wages, geography, i) ==
    IF i = 0 THEN <<>>
    ELSE LET before == wagesOutputOf(wages, geography, i - 1)
             wage == wages[i]
         IN  IF Falsy(wage.SocCode) \/ Falsy(wage.Area) THEN before
             ELSE OutputPush(before, trimCode(wage.SocCode), ProcessedWage(geography, wage))

DataAreas == {"", "1", " 1"}
DataSocs == {"", "A", "A "}

WageRows ==
    [Area : DataAreas, SocCode : DataSocs,
     Level1 : {"40"}, Level2 : {"50"}, Level3 : {"60"}, Level4 : {"70"}]

DataGeographyRows ==
    [Area : {"", "1"}, AreaName : {"Metro"}, CountyTownName : { <<"Orange", " ", "County">> },
     StateAb : {"CA", "FL"}]

MaxData == 2

InitData ==
    /\ PageIdle
    /\ LevelIdle
    /\ PaintIdle
    /\ IndexIdle
    /\ EndpointIdle
    /\ RuleIdle
    /\ UserIdle
    /\ dWages \in UNION {[1..n -> WageRows] : n \in 0..MaxData}
    /\ dGeography \in UNION {[1..n -> DataGeographyRows] : n \in 1..MaxData}
    /\ dOutput = Null

\* the run of the script: wages.json and county-mapping.json as written
processData ==
    /\ dOutput = Null
    /\ dOutput' = Some([wagesOutput |-> wagesOutputOf(dWages, dGeography, Len(dWages)),
                        countyMapping |-> countyMappingOf(dGeography, Len(dGeography))])
    /\ UNCHANGED <<dWages, dGeography, pageVars, levelVars, paintVars, indexVars, endpointVars,
                   ruleVars, userVars>>

NextData == processData

SpecData == InitData /\ [][NextData]_vars

----------------------------------------------------------------------------
(* Claims *)

\* C1: when the request of the selected job category was issued last and has
\* been answered successfully, and every other request has been answered too,
\* the wage set is the selected job category's list: a late response of a
\* superseded request never replaces it.
C1_LastRequestWins ==
    (/\ selectedSoc # NoSoc
     /\ newest = Request(selectedSoc, "ok")
     /\ InflightTotal = 0)
    => wageData = Wages(selectedSoc)

\* C2: while a wage request for the selected job category is in flight,
\* isLoading is true.
C2_LoadingWhileInFlight ==
    (selectedSoc # NoSoc /\ inflight[selectedSoc] > 0) => isLoading

\* C3: right after the request of the selected job category has failed,
\* isLoading is false and the wage set is empty.
C3_FailureClearsData ==
    (/\ lastEvent = "failure"
     /\ selectedSoc # NoSoc
     /\ newest = Request(selectedSoc, "failed"))
    => (~isLoading /\ wageData = <<>>)

\* C4: a pointer-hover or click event issues no wage request, leaves the
\* wage set and the reverse index as they are and does not apply the
\* fill-color rule again.
C4_PointerEventsOnlyNotify ==
    [][lastEvent' \in {"move", "click"} =>
        /\ ~lastFetch'
        /\ inflight' = inflight
        /\ wageData' = wageData
        /\ countyToArea' = countyToArea
        /\ ~lastPaint'
        /\ fillColor' = fillColor]_vars

\* C5: a pointer-leave leaves no hovered wage or location, and the displayed
\* wage and location are then the click selection as it was before the
\* hover; neither the hover nor the leave changes the click selection.
C5_LeaveRestoresSelection ==
    [][/\ lastEvent' \in {"move", "leave"} =>
            /\ selectedWage' = selectedWage
            /\ selectedLocation' = selectedLocation
       /\ lastEvent' = "leave" =>
            /\ hoveredWage' = Null
            /\ hoveredLocation' = Null
            /\ displayedWage' = selectedWage
            /\ displayedLocation' = selectedLocation]_vars

\* a leave that ended a hover with a wage record (it made Home render) while
\* a click selection exists
C5_Witness ==
    /\ lastEvent = "leave"
    /\ lastFetch
    /\ selectedWage # Null
    /\ displayedWage = selectedWage

\* C6 as stated: while a hover over a county is active the displayed
\* selection is the hover selection, otherwise the click selection.
C6_HoverActiveDisplaysHover ==
    IF currentHoverId # Null
    THEN displayedWage = hoveredWage /\ displayedLocation = hoveredLocation
    ELSE displayedWage = selectedWage /\ displayedLocation = selectedLocation

\* C6 as amended: while the hover has a wage record the displayed wage and
\* location are the hover's, and the location is that of the hovered
\* feature; otherwise, also over a county without a wage record, they are
\* the click selection's; a wage is never displayed without its location.
C6_DisplayedSelection ==
    /\ hoveredWage # Null =>
          /\ displayedWage = hoveredWage
          /\ displayedLocation = hoveredLocation
          /\ currentHoverId # Null
          /\ \E f \in Features :
                /\ f.id = currentHoverId[1]
                /\ displayedLocation = Some([county |-> f.NAME, state |-> f.STATE_])
    /\ hoveredWage = Null =>
          /\ displayedWage = selectedWage
          /\ displayedLocation = selectedLocation
    /\ displayedWage # Null <=> displayedLocation # Null

\* a hover with a wage record is displayed over a different click selection
C6_Witness ==
    /\ hoveredWage # Null
    /\ selectedWage # Null
    /\ selectedLocation # hoveredLocation
    /\ displayedLocation = hoveredLocation

\* C7: hover and leave events leave the click selection as it is, and a
\* click leaves the hover state as it is.
C7_HoverClickIndependent ==
    [][/\ lastEvent' \in {"move", "leave"} =>
            /\ selectedWage' = selectedWage
            /\ selectedLocation' = selectedLocation
       /\ lastEvent' = "click" =>
            /\ hoveredWage' = hoveredWage
            /\ hoveredLocation' = hoveredLocation
            /\ currentHoverId' = currentHoverId
            /\ hoveredCountyId' = hoveredCountyId
            /\ hoverState' = hoverState]_vars

\* a click on another county while a hover with a wage record is shown
C7_Witness ==
    /\ lastEvent = "click"
    /\ hoveredWage # Null
    /\ selectedWage # Null
    /\ selectedWage # hoveredWage

\* C8: with a coarse pointer the hovered wage, the hover highlight and the
\* handlers' hover id stay empty; with a coarse pointer or a viewport
\* narrower than 768 a pointer-move changes none of them; a click then still
\* stores what the clicked county resolves to.
C8_NoHoverOnTouch ==
    /\ [](coarse => /\ hoveredWage = Null
                    /\ hoveredLocation = Null
                    /\ hoverState = {}
                    /\ currentHoverId = Null)
    /\ [][(lastEvent' = "move" /\ (coarse \/ innerWidth < 768)) =>
            UNCHANGED <<hoveredWage, hoveredLocation, hoverState, currentHoverId,
                        hoveredCountyId>>]_vars
    /\ [][(lastEvent' = "click" /\ (coarse \/ innerWidth < 768) /\ selectedSoc # NoSoc) =>
            \E f \in Features :
                LET wage == findWageForCounty(wageData, countyToArea, f.NAME, f.STATE_)
                IN  /\ selectedWage' = wage
                    /\ selectedLocation' =
                          IF wage # Null
                          THEN Some([county |-> f.NAME, state |-> f.STATE_])
                          ELSE Null]_vars

\* on a coarse-pointer device a pointer-move was ignored after a click had
\* selected a county with a wage record
C8_Witness ==
    /\ coarse
    /\ lastEvent = "move"
    /\ selectedWage # Null
    /\ wageData # <<>>

\* the levels k of {2, 3, 4} whose annualised rate the salary reaches
ReachedLevels(sal, wage) ==
    {k \in {2, 3, 4} :
        sal >= (CASE k = 2 -> wage.level2 [] k = 3 -> wage.level3 [] OTHER -> wage.level4)
                  * HoursPerYear}

HighestReached(sal, wage) ==
    IF ReachedLevels(sal, wage) = {} THEN 1
    ELSE CHOOSE k \in ReachedLevels(sal, wage) :
            \A j \in ReachedLevels(sal, wage) : j <= k

\* C9: the computed wage level is the highest k of {4, 3, 2} with
\* salary >= levelK * 2080, and 1 when there is none (also below
\* level1 * 2080); it is one of 1..4; the three implementations agree.
C9_HighestLevel ==
    cLevel # 0 =>
        /\ cLevel = HighestReached(cSalary, cWage)
        /\ cLevel \in 1..4
        /\ panelCalculateWageLevel(cSalary, cWage) = cLevel
        /\ currentLevel(cSalary, cWage) = cLevel

\* a salary below level1 * 2080 of a record with unordered tiers has been classified
C9_Witness ==
    /\ cLevel = 1
    /\ cSalary < cWage.level1 * HoursPerYear
    /\ cWage.level3 < cWage.level2
    /\ cWage.level2 > cWage.level4

\* C10: for a fixed wage record, the level computed for a higher salary is
\* at least the level computed for the lower salary.
C10_Monotone ==
    (cLevel # 0 /\ cPrevSalary < cSalary) => cPrevLevel <= cLevel

\* the salary was raised and the level rose from 1 to 4 across unordered tiers
C10_Witness ==
    /\ cPrevSalary < cSalary
    /\ cPrevLevel = 1
    /\ cLevel = 4
    /\ cWage.level4 < cWage.level3

\* the wage level of record i of the painted wage set
PaintedLevel(i) == calculateWageLevel(pSalary, pWages[i])

IsOrdered(w) == w.level1 <= w.level2 /\ w.level2 <= w.level3 /\ w.level3 <= w.level4

\* C11 as claimed: at any salary two areas are painted the same color if and
\* only if the salary falls in the same wage level for both.
C11_ColorByTierAlone ==
    pStatus # <<>> =>
        \A i, j \in 1..Len(pWages) :
            (pStatus[i] = pStatus[j]) <=> (PaintedLevel(i) = PaintedLevel(j))

\* C11 amended: the color is the band of the salary against the first three
\* annualised tiers (green from tier 3, blue from tier 2, amber from tier 1,
\* red below tier 1).  For records whose tiers do not decrease, level 2 is
\* blue, levels 3 and 4 are both green and level 1 is amber or red; so areas
\* of the same level have the same color unless the level is 1, and areas of
\* the same color have the same level unless the color is green.
C11_ColorBySalaryBand ==
    pStatus # <<>> =>
        /\ \A i \in 1..Len(pWages) :
              LET w == pWages[i]
              IN  /\ pStatus[i] = Green <=> pSalary >= w.level3 * HoursPerYear
                  /\ pStatus[i] = Red <=>
                        /\ pSalary < w.level1 * HoursPerYear
                        /\ pSalary < w.level2 * HoursPerYear
                        /\ pSalary < w.level3 * HoursPerYear
                  /\ IsOrdered(w) =>
                        /\ pStatus[i] = Blue <=> PaintedLevel(i) = 2
                        /\ pStatus[i] = Green <=> PaintedLevel(i) \in {3, 4}
                        /\ pStatus[i] \in {Amber, Red} <=> PaintedLevel(i) = 1
        /\ \A i, j \in 1..Len(pWages) :
              IsOrdered(pWages[i]) /\ IsOrdered(pWages[j]) =>
                /\ PaintedLevel(i) = PaintedLevel(j) /\ PaintedLevel(i) # 1
                      => pStatus[i] = pStatus[j]
                /\ pStatus[i] = pStatus[j] /\ pStatus[i] # Green
                      => PaintedLevel(i) = PaintedLevel(j)

\* two areas with non-decreasing tiers have been painted: one is in level 3,
\* the other in level 4, and both are green
C11_Witness ==
    /\ pStatus # <<>>
    /\ IsOrdered(pWages[1])
    /\ PaintedLevel(1) = 3
    /\ PaintedLevel(2) = 4
    /\ pStatus[1] = Green
    /\ pStatus[2] = Green

\* C12: with the wage record of hourly tiers [40, 50, 60, 70] loaded and the
\* salary 120000, the annual thresholds are [83200, 104000, 124800, 145600],
\* the wage level is 2, and the rule just applied to the map gives the
\* county of that area the color of level 2 (blue).
C12_EndToEnd ==
    (lastPaint /\ salary = 120000 /\ wageData = Wages("A")) =>
        LET w == wageData[1]
        IN  /\ <<w.level1, w.level2, w.level3, w.level4>> = <<40, 50, 60, 70>>
            /\ <<w.level1 * HoursPerYear, w.level2 * HoursPerYear,
                  w.level3 * HoursPerYear, w.level4 * HoursPerYear>>
                 = <<83200, 104000, 124800, 145600>>
            /\ calculateWageLevel(salary, w) = 2
            /\ findWageForCounty(wageData, countyToArea, <<"Orange">>, "06") = Some(w)
            /\ featureColor(fillColor, Feature(1, <<"Orange">>, "06")) = Blue

\* the response for job category A has just been painted at salary 120000
C12_Witness ==
    /\ lastPaint
    /\ lastEvent = "response"
    /\ salary = 120000
    /\ wageData = Wages("A")
    /\ featureColor(fillColor, Feature(1, <<"Orange">>, "06")) = Blue

\* the set of the elements of a sequence
Elements(seq) == {seq[i] : i \in 1..Len(seq)}

\* the rows of the geography whose state has a FIPS code
KnownRows == {i \in 1..Len(gRows) : STATE_FIPS(gRows[i].StateAb) # ""}

\* C13: for every geography entry, looking up the entry's county name and
\* state in the built index, the way findWageForCounty looks a name up,
\* yields area codes that contain the entry's area code; the name is
\* normalized the same way when the index is built and when it is read.
C13_ResolveFindsEntry ==
    iIndex # Null =>
        \A i \in 1..Len(gRows) :
            LET codes == lookupAreaCodes(iIndex[1], gRows[i].CountyTownName,
                                         STATE_FIPS(gRows[i].StateAb))
            IN  /\ codes # Null
                /\ gRows[i].Area \in Elements(codes[1])
                /\ trim(toLowerCase(gRows[i].CountyTownName))
                     = trim(stripSuffixes(toLowerCase(gRows[i].CountyTownName)))

\* the name the index files a county under
IndexName(county) == trim(stripSuffixes(toLowerCase(county)))

\* C14: entries with the same normalized county name in different states
\* are filed under different keys; the area codes under a key all belong to
\* entries of the key's name and state, and the wage record a pointer event
\* resolves to is the record of an area that has an entry in the feature's
\* own state.
C14_CollisionsKeptApart ==
    /\ iIndex # Null =>
          /\ \A i, j \in KnownRows :
                gRows[i].StateAb # gRows[j].StateAb =>
                  CountyKey(IndexName(gRows[i].CountyTownName), STATE_FIPS(gRows[i].StateAb))
                    # CountyKey(IndexName(gRows[j].CountyTownName), STATE_FIPS(gRows[j].StateAb))
          /\ \A k \in 1..Len(iIndex[1]) :
                \A code \in Elements(iIndex[1][k].codes) :
                  \E i \in KnownRows :
                    /\ gRows[i].Area = code
                    /\ IndexName(gRows[i].CountyTownName) = iIndex[1][k].key.name
                    /\ STATE_FIPS(gRows[i].StateAb) = iIndex[1][k].key.fips
    /\ (iResolved # Null /\ iResolved[1].selection.wage # Null) =>
          \E i \in KnownRows :
            /\ parseInt(gRows[i].Area) = iResolved[1].selection.wage[1].area
            /\ IndexName(gRows[i].CountyTownName) = toLowerCase(iResolved[1].feature.NAME)
            /\ STATE_FIPS(gRows[i].StateAb) = iResolved[1].feature.STATE_

\* Orange County is in area 1 in California and in area 2 in Florida, both
\* areas have a wage record, and a pointer event on Orange in Florida has
\* resolved to the record of area 2
C14_Witness ==
    /\ Len(gRows) = 2
    /\ gRows[1] = [Area |-> "1", CountyTownName |-> <<"Orange", " ", "County">>, StateAb |-> "CA"]
    /\ gRows[2] = [Area |-> "2", CountyTownName |-> <<"Orange", " ", "County">>, StateAb |-> "FL"]
    /\ iWages = Wages("A")
    /\ iIndex # Null
    /\ iResolved # Null
    /\ iResolved[1].feature = Feature(1, <<"Orange">>, "12")
    /\ iResolved[1].selection.wage = Some(Wages("A")[2])

\* the index a recorded resolution read
ResolvedIndex == IF iResolved[1].indexed THEN iIndex[1] ELSE <<>>

\* the wage set has a record of the area of the code
HasRecord(code) == \E k \in 1..Len(iWages) : iWages[k].area = parseInt(code)

\* C15: a pointer event resolves to no wage when the wage set is empty, the
\* feature has no state code, its (name, state) key is not in the index, or
\* none of the key's area codes has a record in the wage set; the listener
\* then gets wage = null with the feature's county and state.
C15_UnresolvedIsNoData ==
    iResolved # Null =>
        LET feature == iResolved[1].feature
            selection == iResolved[1].selection
            key == CountyKey(toLowerCase(feature.NAME), feature.STATE_)
            unresolvable ==
                \/ iWages = <<>>
                \/ feature.STATE_ = ""
                \/ ~MapHas(ResolvedIndex, key)
                \/ \A code \in Elements(MapGet(ResolvedIndex, key)[1]) : ~HasRecord(code)
        IN  unresolvable =>
              /\ selection.wage = Null
              /\ selection.county = feature.NAME
              /\ selection.state = feature.STATE_

\* Orange County of California is indexed and its area has a wage record,
\* and a pointer event on a feature named Orange without a state code has
\* been resolved to no wage
C15_Witness ==
    /\ iResolved # Null
    /\ iResolved[1].indexed
    /\ iResolved[1].feature = Feature(1, <<"Orange">>, "")
    /\ MapHas(iIndex[1], CountyKey(<<"orange">>, "06"))
    /\ \E code \in Elements(MapGet(iIndex[1], CountyKey(<<"orange">>, "06"))[1]) : HasRecord(code)
    /\ iResolved[1].selection = Selection(Null, <<"Orange">>, "")

\* a suffix word that stands as a word of its own: blanks or the ends of the
\* name on both sides
IsWholeWordAt(name, i) ==
    /\ IsSuffixAt(name, i)
    /\ i = 1 \/ name[i - 1] = Blank
    /\ i = Len(name) \/ name[i + 1] = Blank

RECURSIVE WithoutSuffixWords(_, _)
WithoutSuffixWords(name, i) ==
    IF i > Len(name) THEN <<>>
    ELSE IF IsWholeWordAt(name, i) THEN WithoutSuffixWords(name, i + 1)
    ELSE <<name[i]>> \o WithoutSuffixWords(name, i + 1)

\* the name the renderer reports for a county of the geography: the county
\* name without its suffix words
RenderedName(county) == trim(WithoutSuffixWords(county, 1))

\* C18: the suffix words are removed only where they are whole words, so the
\* name every entry is filed under is the lowercased name the renderer
\* reports for the county, also when that name contains a suffix word inside
\* a longer word.
C18_WholeWordsOnly ==
    iIndex # Null =>
        \A i \in KnownRows :
            /\ IndexName(gRows[i].CountyTownName)
                 = toLowerCase(RenderedName(gRows[i].CountyTownName))
            /\ MapHas(iIndex[1], CountyKey(toLowerCase(RenderedName(gRows[i].CountyTownName)),
                                           STATE_FIPS(gRows[i].StateAb)))

\* the row at which the geography first names an area
FirstRow(area) == CHOOSE i \in 1..Len(gRows) :
                     /\ gRows[i].Area = area
                     /\ \A j \in 1..(i - 1) : gRows[j].Area # area

RECURSIVE FirstWithRecord(_, _)
\* the first code of the list, from position i, that has a wage record
FirstWithRecord(codes, i) ==
    IF i > Len(codes) THEN Null
    ELSE IF HasRecord(codes[i]) THEN Some(parseInt(codes[i]))
    ELSE FirstWithRecord(codes, i + 1)

\* C19: the area codes under a key are in the order in which the geography
\* put their areas into the directory, and a pointer event on a key with
\* several codes resolves to the record of the first code, in the order of
\* the key's list, that has a record in the wage set.
C19_InsertionOrderFirstMatch ==
    /\ iIndex # Null =>
          \A k \in 1..Len(iIndex[1]) :
            LET codes == iIndex[1][k].codes
            IN  \A a, b \in 1..Len(codes) :
                  a < b => FirstRow(codes[a]) <= FirstRow(codes[b])
    /\ (iResolved # Null /\ iResolved[1].indexed) =>
          LET feature == iResolved[1].feature
              key == CountyKey(toLowerCase(feature.NAME), feature.STATE_)
              first == IF MapHas(iIndex[1], key)
                       THEN FirstWithRecord(MapGet(iIndex[1], key)[1], 1)
                       ELSE Null
          IN  first # Null =>
                /\ iResolved[1].selection.wage # Null
                /\ iResolved[1].selection.wage[1].area = first[1]

\* C17: with the wage data loaded, the endpoint answers 400 without a
\* job-category parameter, 404 for a job category that has no entry in the
\* wage data, 404 for an area the job category has no record of, and
\* otherwise 200 with the record of the area, or with the whole list when no
\* area is asked for.
C17_EndpointStatus ==
    (eRequest # Null /\ wagesFile = "data") =>
        LET soc == eRequest[1].soc
            area == eRequest[1].area
            areaGiven == area # NoParam /\ area # ""
            r == eResponse[1]
        IN  IF soc = NoParam \/ soc = "" THEN r.status = 400
            ELSE IF soc \notin Socs THEN r.status = 404
            ELSE IF areaGiven /\ \A k \in 1..Len(Wages(soc)) : Wages(soc)[k].area # parseInt(area)
                 THEN r.status = 404
            ELSE IF areaGiven
                 THEN /\ r.status = 200
                      /\ r.body \in Elements(Wages(soc))
                      /\ r.body.area = parseInt(area)
            ELSE r = Response(200, Wages(soc))

\* the color of the wage record that resolution returns for a key of the
\* index, Null when it returns none
KeyColor(key) ==
    LET wage == findWageForCounty(wageData, countyToArea, titleCase(key.name), key.fips)
    IN  IF wage = Null THEN Null ELSE Some(areaColor(salary, wage[1]))

\* the keys of the index that have the name and resolve to a wage record
ColoredKeys(name) ==
    {key \in {countyToArea[k].key : k \in 1..Len(countyToArea)} :
        key.name = name /\ KeyColor(key) # Null}

\* the name is in two or more states whose areas have different colors
Collides(name) ==
    \E k1, k2 \in ColoredKeys(name) : KeyColor(k1) # KeyColor(k2)

\* the branch of a paint value for a name is a nested one
HasNestedBranch(paint, name) ==
    \E i \in 1..Len(paint.branches) :
        paint.branches[i].name = name /\ paint.branches[i].states # <<>>

\* a state code no county of the directory has
UnlistedState == "99"

\* C20: when a county name is in two or more states whose wage areas have
\* different colors at the salary, the rule just applied has a nested branch
\* by state under that name, gives the feature of each (name, state) the
\* color of its own area, and gives a state not listed under the name the
\* no-data color.
C20_CollisionNestedByState ==
    (lastPaint /\ wageData # <<>>) =>
        \A name \in {countyToArea[k].key.name : k \in 1..Len(countyToArea)} :
            Collides(name) =>
                /\ HasNestedBranch(fillColor, titleCase(name))
                /\ \A key \in ColoredKeys(name) :
                      featureColor(fillColor, Feature(1, titleCase(name), key.fips))
                        = KeyColor(key)[1]
                /\ featureColor(fillColor, Feature(1, titleCase(name), UnlistedState))
                     = NoDataColor

\* job category A at salary 120000 has just been painted: Orange is blue in
\* California and green in Florida
C20_Witness ==
    /\ lastPaint
    /\ wageData = Wages("A")
    /\ salary = 120000
    /\ Collides(<<"orange">>)
    /\ featureColor(fillColor, Feature(1, <<"Orange">>, "06")) = Blue
    /\ featureColor(fillColor, Feature(2, <<"Orange">>, "12")) = Green


\* the rendered features a list of targets names: same state FIPS, same
\* normalized name
Normalized(name) == trim(stripSuffixes(toLowerCase(name)))

IsTargetOf(feature, focused) ==
    \E t \in 1..Len(focused) :
        /\ STATE_FIPS(focused[t].stateAb) = feature.STATE_
        /\ Normalized(focused[t].county) = Normalized(feature.NAME)

TargetFeatures(focused) == {f \in Features : mapReady /\ IsTargetOf(f, focused)}

\* every coordinate of a geometry
Rings(geometry) ==
    IF geometry.type = "Polygon" THEN Elements(geometry.coordinates)
    ELSE UNION {Elements(polygon) : polygon \in Elements(geometry.coordinates)}

Coordinates(geometry) == UNION {Elements(ring) : ring \in Rings(geometry)}

Covers(bounds, coord) ==
    /\ bounds.west <= coord[1] /\ coord[1] <= bounds.east
    /\ bounds.south <= coord[2] /\ coord[2] <= bounds.north

\* C16: when a location with a non-empty target list has just been chosen and
\* at least one target has a rendered county feature, a fit-view request is
\* issued, its bounds cover every coordinate of every matching feature, its
\* padding is top 50, bottom 50, left 350, right 50 and its maximum zoom is 10.
C16_LocationFitsView ==
    (lastEvent = "location" /\ focusedCounties # <<>> /\ TargetFeatures(focusedCounties) # {}) =>
        /\ lastFit # Null
        /\ \A f \in TargetFeatures(focusedCounties) :
               \A coord \in Coordinates(Geometry(f.id)) : Covers(lastFit[1].bounds, coord)
        /\ lastFit[1].padding = [top |-> 50, bottom |-> 50, left |-> 350, right |-> 50]
        /\ lastFit[1].maxZoom = 10

\* the county-name groups of the rule run, as updateMapColors collects them
RuleGroups == nameGroups(<<>>, CurrentIndex, iWages, rSalary, 1)

GroupColors(group) == {group.entries[i].color : i \in 1..Len(group.entries)}

\* the rule run has just applied a match expression
RuleMatchApplied == rApplied /\ iWages # <<>> /\ rFill.kind = "match"

\* C21 as claimed: a group whose entries all have the same color gets a
\* direct name-to-color branch, and a nested branch by state is only there
\* for a group of two or more distinct colors.
C21_DirectWhenOneColor ==
    RuleMatchApplied =>
        \A g \in 1..Len(RuleGroups) :
            LET group == RuleGroups[g]
                branch == rFill.branches[g]
            IN  /\ branch.name = group.name
                /\ Cardinality(GroupColors(group)) = 1 =>
                      /\ branch.states = <<>>
                      /\ branch.color = group.entries[1].color
                /\ branch.states # <<>> => Cardinality(GroupColors(group)) >= 2

\* C21 amended: a group of exactly one entry (one state with wage data) gets
\* a direct name-to-color branch; a group of two or more entries gets a
\* nested branch that lists every entry's state and color, also when all the
\* entries have the same color.
C21_DirectWhenOneState ==
    RuleMatchApplied =>
        /\ Len(rFill.branches) = Len(RuleGroups)
        /\ \A g \in 1..Len(RuleGroups) :
              LET group == RuleGroups[g]
                  branch == rFill.branches[g]
              IN  /\ branch.name = group.name
                  /\ Len(group.entries) = 1 =>
                        /\ branch.states = <<>>
                        /\ branch.color = group.entries[1].color
                  /\ Len(group.entries) >= 2 =>
                        /\ branch.states = group.entries
                        /\ branch.states # <<>>

\* Orange is green in California and in Florida, and the rule just applied
\* has a nested branch by state for it
C21_Witness ==
    /\ RuleMatchApplied
    /\ Len(RuleGroups) = 1
    /\ Len(RuleGroups[1].entries) = 2
    /\ GroupColors(RuleGroups[1]) = {Green}
    /\ rFill.branches[1].states # <<>>

\* C22: under the rule just applied, a rendered county feature whose own
\* (name, state) key does not resolve to a wage record of the current wage
\* set has the no-data color, also when a county of the same name in another
\* state has wage data.
C22_OnlyOwnKeyColors ==
    rApplied =>
        \A f \in RuleFeatures :
            findWageForCounty(iWages, CurrentIndex, f.NAME, f.STATE_) = Null
                => featureColor(rFill, f) = NoDataColor

\* the keys of the index of the rule run
RuleKeys == {CurrentIndex[k].key : k \in 1..Len(CurrentIndex)}

\* the color the compiler assigns to a key: that of the first area code
\* with an entry in areaStatus
CompiledColor(key) == FirstColor(iWages, rSalary, MapGet(CurrentIndex, key)[1], 1)

\* the color classification of the record hover and click resolve the key to
ResolvedColor(key) ==
    LET wage == findWageForCounty(iWages, CurrentIndex, titleCase(key.name), key.fips)
    IN  IF wage = Null THEN Null ELSE Some(areaColor(rSalary, wage[1]))

\* C27: for every key of the index, the color the paint compiler assigns to
\* the key is the color classification of the wage record that hover and
\* click resolve the key to, also for a wage set with two records of the
\* same area code.
C27_PaintMatchesResolution ==
    (rEvent \in {"wages", "salary"} /\ iWages # <<>>) =>
        \A key \in RuleKeys : CompiledColor(key) = ResolvedColor(key)

\* the rule updateMapColors compiles from the current index, wage set and
\* salary of the rule run
CompiledRule == updateMapColors(TRUE, iWages, CurrentIndex, rSalary).paint

\* C23: after updateMapColors has run on a change of the salary or of the
\* wage set, with the map loaded, the rule applied to the map paints every
\* county as the rule compiled from the current index, wage set and salary
\* does: no rule of an earlier wage set or salary stays applied.
C23_AppliedRuleIsCurrent ==
    rEvent \in {"wages", "salary"} =>
        \A f \in RuleFeatures : featureColor(rFill, f) = featureColor(CompiledRule, f)

RECURSIVE SumLen(_, _)
\* the number of elements of the lists seq[1], ..., seq[i]
SumLen(seq, i) == IF i = 0 THEN 0 ELSE Len(seq[i]) + SumLen(seq, i - 1)

\* the wage rows and geography rows that lack none of their codes
CompleteWages == {i \in 1..Len(dWages) : dWages[i].SocCode # "" /\ dWages[i].Area # ""}
CompleteGeography == {i \in 1..Len(dGeography) : dGeography[i].Area # ""}

\* C24: a wage row without area code or job-category code, and a geography
\* row without area code, is skipped: the wage output holds exactly one
\* record per complete wage row, under the row's job category, and the
\* county mapping holds exactly one county per complete geography row, under
\* the row's area, and no entry without area code.
C24_IncompleteRowsSkipped ==
    dOutput # Null =>
        LET wagesOutput == dOutput[1].wagesOutput
            mapping == dOutput[1].countyMapping
        IN  /\ SumLen([k \in 1..Len(wagesOutput) |-> wagesOutput[k].records], Len(wagesOutput))
                  = Cardinality(CompleteWages)
            /\ \A i \in CompleteWages :
                  \E k \in 1..Len(wagesOutput) :
                    /\ wagesOutput[k].socCode = trimCode(dWages[i].SocCode)
                    /\ ProcessedWage(dGeography, dWages[i]) \in Elements(wagesOutput[k].records)
            /\ \A k \in 1..Len(wagesOutput) : wagesOutput[k].socCode # ""
            /\ SumLen([k \in 1..Len(mapping) |-> mapping[k].counties], Len(mapping))
                  = Cardinality(CompleteGeography)
            /\ \A i \in CompleteGeography :
                  \E k \in 1..Len(mapping) :
                    /\ mapping[k].areaCode = dGeography[i].Area
                    /\ [county |-> dGeography[i].CountyTownName, stateAb |-> dGeography[i].StateAb]
                          \in Elements(mapping[k].counties)
            /\ \A k \in 1..Len(mapping) : mapping[k].areaCode # ""

\* C25: whenever no job category is selected the wage set of the map is
\* empty, every county resolves to no wage, and the rule applied to the map
\* paints every county in the no-data color; also after the response to a
\* request made before the deselection.
C25_NoJobNoData ==
    selectedSoc = NoSoc =>
        /\ wageData = <<>>
        /\ \A f \in Features :
              /\ findWageForCounty(wageData, countyToArea, f.NAME, f.STATE_) = Null
              /\ featureColor(fillColor, f) = NoDataColor

\* C26: the wage record the popup displays, click-selected or hovered, is a
\* record of the wage set of the job category that is selected now.
C26_PopupOfCurrentJob ==
    displayedWage # Null =>
        /\ selectedSoc # NoSoc
        /\ displayedWage[1] \in Elements(Wages(selectedSoc))

\* the rule updateMapColors compiles from the page's index, wage set and
\* salary
PageRule == updateMapColors(TRUE, wageData, countyToArea, salary).paint

\* C28: once the map's load event, the load of the county index and the
\* response to the wage request of the selected job category have all
\* completed, in whatever order, the rule applied to the map paints every
\* county as the rule compiled from the loaded index and wage set at the
\* current salary does.
C28_PaintedAfterAllLoads ==
    (/\ mapReady
     /\ countyToArea # <<>>
     /\ selectedSoc # NoSoc
     /\ newest = Request(selectedSoc, "ok")
     /\ InflightTotal = 0
     /\ wageData = Wages(selectedSoc))
    => \A f \in Features : featureColor(fillColor, f) = featureColor(PageRule, f)

\* C29: at most one county feature has the hover feature-state; a handled
\* pointer-move leaves it on the feature the move reported and on no other,
\* a pointer-leave leaves it on none, and no other step changes it, so the
\* highlighted feature is always the one the last handled move reported.
C29_SingleHoverHighlight ==
    /\ [](Cardinality(hoverState) <= 1)
    /\ [](hoverState = (IF currentHoverId = Null THEN {} ELSE {currentHoverId[1]}))
    /\ [][(\A f \in Features :
                (mouseMoveHandler(f) /\ ~hoverSuppressed) => hoverState' = {f.id})
           /\ (lastEvent' = "leave" => hoverState' = {})
           /\ ((lastEvent' \notin {"move", "leave"} \/ (lastEvent' = "move" /\ hoverSuppressed))
                 => hoverState' = hoverState)]_vars

\* the pointer has moved from one county to another, and only the second is
\* highlighted
C29_Witness ==
    /\ lastEvent = "move"
    /\ hoveredLocation = Some([county |-> <<"Lake">>, state |-> "06"])
    /\ selectedLocation = Some([county |-> <<"Orange">>, state |-> "12"])
    /\ hoverState = {3}

\* C30: once the user has stopped, and as every wage request in flight is
\* answered, with success or with a failure, isLoading becomes false and
\* stays false, and from then on no step issues a wage request.
C30_SettlesAfterUserStops ==
    quiet ~> [](~isLoading /\ ~lastFetch)

\* the user stopped while requests were in flight, and the last of them has
\* just been answered with a failure
C30_Witness ==
    /\ quiet
    /\ lastEvent = "failure"
    /\ selectedSoc # NoSoc
    /\ InflightTotal = 0
    /\ ~isLoading

====
